---- MODULE Spec2Model ----
(***************************************************************************)
(* A model of filtermanage.py: Band, FilterSet, FilterSetManager and       *)
(* Photometry.                                                             *)
(*                                                                         *)
(* Python strings are sequences of one-character strings, so that          *)
(* str.lower() is computed character by character.  Python dicts are       *)
(* functions whose DOMAIN is the set of keys.  Numbers are exact decimal   *)
(* rationals n/d * 10^e; 10**x and log10 are exact on whole decades and    *)
(* truncate to the whole decade below otherwise.  Every call returns a     *)
(* record [status, value]: status "ok" or the name of the exception that   *)
(* the call raises.                                                        *)
(***************************************************************************)
EXTENDS Integers, Sequences, FiniteSets, TLC

(***************************************************************************)
(* Bounds of the model.                                                    *)
(***************************************************************************)
\* magnitudes are 2.5 * k for k in -MinusMinStep .. MaxStep  (-5 .. 30 mag)
MinusMinStep == 2
MaxStep == 12
\* magnitude errors are 2.5 * k for k in 0 .. MaxErrStep
MaxErrStep == 2
\* number of writes (addBands elements, __setitem__) tracked on one FilterSet
MaxWrites == 3

(***************************************************************************)
(* Strings.                                                                *)
(***************************************************************************)
Uppers == <<"A","B","C","D","E","F","G","H","I","J","K","L","M",
            "N","O","P","Q","R","S","T","U","V","W","X","Y","Z">>
Lowers == <<"a","b","c","d","e","f","g","h","i","j","k","l","m",
            "n","o","p","q","r","s","t","u","v","w","x","y","z">>

LowerChar(c) ==
    IF \E i \in DOMAIN Uppers : Uppers[i] = c
    THEN Lowers[CHOOSE i \in DOMAIN Uppers : Uppers[i] = c]
    ELSE c

UpperChar(c) ==
    IF \E i \in DOMAIN Lowers : Lowers[i] = c
    THEN Uppers[CHOOSE i \in DOMAIN Lowers : Lowers[i] = c]
    ELSE c

RECURSIVE Lower(_)
\* str.lower()
Lower(s) == IF s = <<>> THEN <<>> ELSE <<LowerChar(Head(s))>> \o Lower(Tail(s))

RECURSIVE Upper(_)
\* str.upper()
Upper(s) == IF s = <<>> THEN <<>> ELSE <<UpperChar(Head(s))>> \o Upper(Tail(s))

\* str.capitalize()
Capitalize(s) == IF s = <<>> THEN <<>> ELSE <<UpperChar(Head(s))>> \o Lower(Tail(s))

\* the letter-case variants of a name that the model tries
CaseVariants(s) == {s, Lower(s), Upper(s), Capitalize(s)}

(***************************************************************************)
(* Numbers: n/d * 10^e with d > 0, gcd(n, d) = 1 and neither n nor d       *)
(* divisible by ten.                                                       *)
(***************************************************************************)
Abs(i) == IF i < 0 THEN -i ELSE i

RECURSIVE GCD(_, _)
GCD(a, b) == IF b = 0 THEN a ELSE GCD(b, a % b)

RECURSIVE Tens(_)
\* how many times ten divides i (i # 0)
Tens(i) == IF i % 10 = 0 THEN 1 + Tens(i \div 10) ELSE 0

RECURSIVE IPow10(_)
IPow10(k) == IF k <= 0 THEN 1 ELSE 10 * IPow10(k - 1)

RECURSIVE Digits(_)
\* number of decimal digits of i > 0
Digits(i) == IF i < 10 THEN 1 ELSE 1 + Digits(i \div 10)

Norm(n, d, e) ==
    IF n = 0 THEN [n |-> 0, d |-> 1, e |-> 0]
    ELSE LET s  == IF (n < 0) = (d < 0) THEN 1 ELSE -1
             g  == GCD(Abs(n), Abs(d))
             n1 == Abs(n) \div g
             d1 == Abs(d) \div g
             tn == Tens(n1)
             td == Tens(d1)
         IN  [n |-> s * (n1 \div IPow10(tn)), d |-> d1 \div IPow10(td), e |-> e + tn - td]

Num(n, e) == Norm(n, 1, e)
Whole(i)    == Norm(i, 1, 0)
Zero      == Whole(0)
One       == Whole(1)

Mul(a, b) == Norm(a.n * b.n, a.d * b.d, a.e + b.e)
Div(a, b) == Norm(a.n * b.d, a.d * b.n, a.e - b.e)
Sub(a, b) ==
    LET e == IF a.e < b.e THEN a.e ELSE b.e
    IN  Norm(a.n * IPow10(a.e - e) * b.d - b.n * IPow10(b.e - e) * a.d, a.d * b.d, e)

\* floor(log10(n/d)) for n, d > 0
FloorLog(n, d) ==
    LET j  == Digits(n) - Digits(d)
        nn == n * IPow10(-j)
        dd == d * IPow10(j)
    IN  IF nn >= dd THEN j ELSE j - 1

\* floor of a number
Floor(a) ==
    IF a.e >= 0 THEN (a.n * IPow10(a.e)) \div a.d
    ELSE a.n \div (a.d * IPow10(-a.e))

\* 10.0 ** x
Pow10(x) == [n |-> 1, d |-> 1, e |-> Floor(x)]

\* log10(x), x > 0
Log10(x) == Whole(x.e + FloorLog(x.n, x.d))

(***************************************************************************)
(* Python values.  Every value is a record with a type field.              *)
(***************************************************************************)
None == [type |-> "NoneType"]

\* x is None / x is not None
IsNone(x) == x.type = "NoneType"

\* a bare Python number
Float(x) == [type |-> "float", value |-> x, unit |-> "none"]

\* astropy Quantity: x * unit
Quantity(x, unit) == [type |-> "Quantity", value |-> x, unit |-> unit]

\* astropy u.Magnitude(x)
Magnitude(x) == [type |-> "Magnitude", value |-> x, unit |-> "mag"]

PyList(items) == [type |-> "list", items |-> items]
PyTuple(items) == [type |-> "tuple", items |-> items]

\* dict.keys()
DictKeys(keys) == [type |-> "dict_keys", keys |-> keys]

\* the outcome of a call: a returned value, or the exception raised
Ok(v)    == [status |-> "ok", value |-> v]
Raise(x) == [status |-> x, value |-> None]

\* units of spectral flux density, as the power of ten of one unit in Jy
FluxUnits == {"Jy", "mJy"}
UnitExp(unit) == IF unit = "mJy" THEN -3 ELSE 0

\* quantityhelpers.isQuantity
isQuantity(x) == x.type \in {"Quantity", "Magnitude"}

\* quantityhelpers.isMagnitude: a value tagged with magnitude semantics
isMagnitude(x) == isQuantity(x) /\ x.unit = "mag"

\* quantityhelpers.isFluxDensity: a value tagged with flux-density units
isFluxDensity(x) == isQuantity(x) /\ x.unit \in FluxUnits

\* Quantity.to(unit)
To(q, unit) ==
    IF q.unit \in FluxUnits /\ unit \in FluxUnits
    THEN Ok(Quantity(Mul(q.value, [n |-> 1, d |-> 1, e |-> UnitExp(q.unit) - UnitExp(unit)]), unit))
    ELSE IF q.unit = unit THEN Ok(q)
    ELSE Raise("UnitConversionError")

\* x * unit for a raw x: a bare number takes the unit, a Quantity gets a product unit
TimesUnit(x, unit) ==
    IF x.type = "float" THEN Quantity(x.value, unit)
    ELSE Quantity(x.value, "other")

\* two flux densities that represent the same flux
SameFlux(p, q) ==
    /\ isFluxDensity(p) /\ isFluxDensity(q)
    /\ To(p, "Jy").value = To(q, "Jy").value

(***************************************************************************)
(* Telescope names and photometric band names (module constants).          *)
(***************************************************************************)
SDSS      == <<"S","D","S","S">>
SLOAN     == <<"S","D","S","S">>
SPITZER   == <<"S","p","i","t","z","e","r">>
GAIA      == <<"G","A","I","A">>
GAIA2     == <<"G","A","I","A","2">>
GAIA2r    == <<"G","A","I","A","2","r">>
HERSCHEL  == <<"H","e","r","s","c","h","e","l">>
TWOMASS   == <<"2","M","A","S","S">>
WISE      == <<"W","I","S","E">>
GENERIC   == <<"G","e","n","e","r","i","c">>
SDSS_u    == <<"S","D","S","S","_","u">>
SDSS_g    == <<"S","D","S","S","_","g">>
SDSS_r    == <<"S","D","S","S","_","r">>
SDSS_i    == <<"S","D","S","S","_","i">>
SDSS_z    == <<"S","D","S","S","_","z">>
BESSELL_U == <<"B","U">>
BESSELL_B == <<"B","B">>
BESSELL_V == <<"B","V">>
BESSELL_R == <<"B","R">>
BESSELL_I == <<"B","I">>
GAIA_G2   == <<"G","A","I","A","_","G","2">>
GAIA_B2   == <<"G","A","I","A","_","B","P","2">>
GAIA_R2   == <<"G","A","I","A","_","R","P","2">>
GAIA_G2r  == <<"G","A","I","A","_","G","2","r">>
GAIA_B2r  == <<"G","A","I","A","_","B","P","2","r">>
GAIA_R2r  == <<"G","A","I","A","_","R","P","2","r">>
TWOMASS_J == <<"2","J">>
TWOMASS_H == <<"2","H">>
TWOMASS_K == <<"2","K">>
IRAC1     == <<"I","1">>
IRAC2     == <<"I","2">>
IRAC3     == <<"I","3">>
IRAC4     == <<"I","4">>
MIPS1     == <<"M","1">>
MIPS2     == <<"M","2">>
MIPS3     == <<"M","3">>
PACS_B    == <<"P","A","C","S","1">>
PACS_G    == <<"P","A","C","S","2">>
PACS_R    == <<"P","A","C","S","3">>
WISE1     == <<"W","I","S","E","1">>
WISE2     == <<"W","I","S","E","2">>
WISE3     == <<"W","I","S","E","3">>
WISE4     == <<"W","I","S","E","4">>

\* _valid_bands: band name -> telescope name, as a set of pairs in dict order
valid_bands_items ==
    <<<<SDSS_u, SLOAN>>,
      <<SDSS_g, SLOAN>>,
      <<SDSS_r, SLOAN>>,
      <<SDSS_i, SLOAN>>,
      <<SDSS_z, SLOAN>>,
      <<BESSELL_U, GENERIC>>,
      <<BESSELL_B, GENERIC>>,
      <<BESSELL_V, GENERIC>>,
      <<BESSELL_R, GENERIC>>,
      <<BESSELL_I, GENERIC>>,
      <<GAIA_G2, GAIA>>,
      <<GAIA_B2, GAIA>>,
      <<GAIA_R2, GAIA>>,
      <<GAIA_G2r, GAIA>>,
      <<GAIA_B2r, GAIA>>,
      <<GAIA_R2r, GAIA>>,
      <<TWOMASS_J, TWOMASS>>,
      <<TWOMASS_H, TWOMASS>>,
      <<TWOMASS_K, TWOMASS>>,
      <<IRAC1, SPITZER>>,
      <<IRAC2, SPITZER>>,
      <<IRAC3, SPITZER>>,
      <<IRAC4, SPITZER>>,
      <<MIPS1, SPITZER>>,
      <<MIPS2, SPITZER>>,
      <<MIPS3, SPITZER>>,
      <<PACS_B, HERSCHEL>>,
      <<PACS_G, HERSCHEL>>,
      <<PACS_R, HERSCHEL>>,
      <<WISE1, WISE>>,
      <<WISE2, WISE>>,
      <<WISE3, WISE>>,
      <<WISE4, WISE>>>>


\* _valid_bands as a dict
valid_bands ==
    [k \in {valid_bands_items[i][1] : i \in DOMAIN valid_bands_items} |->
        valid_bands_items[CHOOSE i \in DOMAIN valid_bands_items :
            /\ valid_bands_items[i][1] = k
            /\ \A j \in DOMAIN valid_bands_items :
                  valid_bands_items[j][1] = k => j <= i][2]]

(***************************************************************************)
(* class Band                                                              *)
(***************************************************************************)
\* Band.__init__
NewBand(name, wavelength, bandwidth, zeropoint) ==
    IF ~isQuantity(wavelength) \/ ~isQuantity(bandwidth) \/ ~isQuantity(zeropoint)
    THEN Raise("Exception")
    ELSE IF To(wavelength, "angstrom").status # "ok" THEN Raise("Exception")
    ELSE IF To(bandwidth, "angstrom").status # "ok" THEN Raise("Exception")
    ELSE IF To(zeropoint, "Jy").status # "ok" THEN Raise("Exception")
    ELSE Ok([type |-> "Band", name |-> name, wavelength |-> wavelength,
             bandwidth |-> bandwidth, zeropoint |-> zeropoint])

\* Band(name, w*u.angstrom, bw*u.angstrom, zp*u.jansky), numbers in tenths
B(name, w, bw, zp) ==
    NewBand(name, Quantity(Num(w, -1), "angstrom"), Quantity(Num(bw, -1), "angstrom"),
            Quantity(Num(zp, -1), "Jy")).value

\* Band.name(), Band.wave(), Band.bw(), Band.zp()
name(band) == band.name
wave(band) == band.wavelength
bw(band)   == band.bandwidth
zp(band)   == band.zeropoint

(***************************************************************************)
(* class FilterSet                                                         *)
(***************************************************************************)
EmptyDict == [k \in {} |-> None]

\* d[k] = v
DictSet(d, k, v) == [x \in DOMAIN d \cup {k} |-> IF x = k THEN v ELSE d[x]]

RECURSIVE AddEach(_, _, _)
\* for band in bands: self._bands[band._name.lower()] = band
AddEach(dict, items, i) ==
    IF i > Len(items) THEN dict
    ELSE AddEach(DictSet(dict, Lower(items[i].name), items[i]), items, i + 1)

\* list(x): a tuple is copied; a FilterSet has __getitem__ and no __iter__, so it is
\* read as x[0], x[1], ... and x[0] calls (0).lower(); a Band is not iterable
list(x) ==
    IF x.type = "tuple" THEN Ok(PyList(x.items))
    ELSE IF x.type = "FilterSet" THEN Raise("AttributeError")
    ELSE Raise("TypeError")

\* FilterSet.addBands: the FilterSet after the call, or the exception
addBands(self, bands) ==
    LET bands_ == IF bands.type # "list" THEN list(bands) ELSE Ok(bands)
    IN  IF bands_.status # "ok" THEN bands_
        ELSE Ok([self EXCEPT !.bands = AddEach(self.bands, bands_.value.items, 1)])

\* FilterSet.__init__
NewFilterSet(fsname, bands) ==
    LET self == [type |-> "FilterSet", name |-> fsname, bands |-> EmptyDict]
    IN  IF ~IsNone(bands) THEN addBands(self, bands) ELSE Ok(self)

\* FilterSet.__getitem__
FilterSet_getitem(self, bandname) ==
    IF Lower(bandname) \in DOMAIN self.bands
    THEN Ok(self.bands[Lower(bandname)])
    ELSE Raise("KeyError")

\* __setitem__ storing under the name as given
FilterSet_setitem_AsGiven(self, bandname, band) ==
    IF band.type # "Band"
    THEN Raise("Exception")
    ELSE Ok([self EXCEPT !.bands = DictSet(self.bands, bandname, band)])

\* FilterSet.__setitem__: the FilterSet after the call, or the exception
FilterSet_setitem(self, bandname, band) ==
    IF band.type # "Band"
    THEN Raise("Exception")
    ELSE Ok([self EXCEPT !.bands = DictSet(self.bands, Lower(bandname), band)])

(***************************************************************************)
(* The built-in catalogue.                                                 *)
(***************************************************************************)
sloan == PyList(<<
    B(SDSS_u, 35618, 5584, 15685),
    B(SDSS_g, 47189, 11584, 39659),
    B(SDSS_r, 61852, 11112, 31620),
    B(SDSS_i, 74997, 10446, 26020),
    B(SDSS_z, 89615, 11246, 22447)>>)

bessel == PyList(<<
    B(BESSELL_U, 36051, 6404, 18031),
    B(BESSELL_B, 44000, 9000, 40000),
    B(BESSELL_V, 53121, 8931, 35798),
    B(BESSELL_R, 65759, 15910, 29714),
    B(BESSELL_I, 80599, 14951, 24053)>>)

gaia2 == PyList(<<
    B(GAIA_B2, 52799, 23474, 35347),
    B(GAIA_G2, 67425, 41830, 32962),
    B(GAIA_R2, 78837, 27568, 26203)>>)

gaia2r == PyList(<<
    B(GAIA_B2r, 52786, 22794, 33933),
    B(GAIA_G2r, 67737, 43584, 28351),
    B(GAIA_R2r, 79191, 29437, 24851)>>)

twomass == PyList(<<
    B(TWOMASS_J, 123500, 16241, 15940),
    B(TWOMASS_H, 166200, 25094, 10240),
    B(TWOMASS_K, 215900, 26189, 6668)>>)

spitzer == PyList(<<
    B(IRAC1, 355726, 68362, 2772),
    B(IRAC2, 450493, 86499, 1790),
    B(IRAC3, 573857, 125612, 1138),
    B(IRAC4, 792737, 252885, 620),
    B(MIPS1, 2384331, 529632, 71),
    B(MIPS2, 7255553, 2130153, 8),
    B(MIPS3, 15696271, 3575302, 2)>>)

herschel == PyList(<<
    B(PACS_B, 7193342, 2141489, 8),
    B(PACS_G, 10261746, 3128600, 4),
    B(PACS_R, 16713553, 6975953, 1)>>)

wise == PyList(<<
    B(WISE1, 335260, 66264, 3095),
    B(WISE2, 460280, 104227, 1718),
    B(WISE3, 1156080, 550557, 317),
    B(WISE4, 2208830, 410168, 84)>>)

all_filtersets == <<sloan, gaia2, bessel, twomass, spitzer, herschel, wise>>
all_names      == <<SLOAN, GAIA, GENERIC, TWOMASS, SPITZER, HERSCHEL, WISE>>

(***************************************************************************)
(* class FilterSetManager                                                  *)
(***************************************************************************)
RECURSIVE AddEachSet(_, _, _)
\* for f in filtersets: self._filtersets[f._name.lower()] = f
AddEachSet(dict, items, i) ==
    IF i > Len(items) THEN dict
    ELSE AddEachSet(DictSet(dict, Lower(items[i].name), items[i]), items, i + 1)

\* FilterSetManager.addFilterSets: the _filtersets dict after the call, or the exception
addFilterSets(filtersets_, filtersets) ==
    LET list_ == IF filtersets.type # "list" THEN list(filtersets) ELSE Ok(filtersets)
    IN  IF list_.status # "ok" THEN list_
        ELSE Ok(AddEachSet(filtersets_, list_.value.items, 1))

\* zip(all_filtersets, all_names)
ZipLen == IF Len(all_filtersets) < Len(all_names) THEN Len(all_filtersets) ELSE Len(all_names)

\* FilterSetManager.__init__: the _filtersets dict of a new manager
FilterSetManagerInit ==
    LET fslist == [i \in 1..ZipLen |->
                     addBands(NewFilterSet(all_names[i], None).value, all_filtersets[i]).value]
    IN  addFilterSets(EmptyDict, PyList(fslist)).value

\* FilterSetManager.__getitem__
FilterSetManager_getitem(filtersets_, fsname) ==
    IF Lower(fsname) \in DOMAIN filtersets_
    THEN Ok(filtersets_[Lower(fsname)])
    ELSE Raise("KeyError")

\* FilterSetManager.filtersetnames
filtersetnames(filtersets_) == Ok(DictKeys(DOMAIN filtersets_))

\* an attribute lookup on a FilterSet: the class defines no keys()
FilterSetAttrs == {"addBands", "__getitem__", "__setitem__", "_name", "_bands"}

\* FilterSetManager.bandnames
bandnames(filtersets_, filterset) ==
    IF filterset \notin DOMAIN filtersets_ THEN Raise("KeyError")
    ELSE IF "keys" \notin FilterSetAttrs THEN Raise("AttributeError")
    ELSE Ok(DictKeys(DOMAIN filtersets_[filterset].bands))

\* self._filtersets[filterset][band]
Lookup(filtersets_, filterset, band) ==
    IF filterset \notin DOMAIN filtersets_ THEN Raise("KeyError")
    ELSE FilterSet_getitem(filtersets_[filterset], band)

\* FilterSetManager.zeropoint
zeropoint(filtersets_, filterset, band) ==
    LET b == Lookup(filtersets_, filterset, band)
    IN  IF b.status # "ok" THEN b ELSE Ok(zp(b.value))

\* FilterSetManager.wavelength
wavelength(filtersets_, filterset, band) ==
    LET b == Lookup(filtersets_, filterset, band)
    IN  IF b.status # "ok" THEN b ELSE Ok(wave(b.value))

\* FilterSetManager.bandwidth
bandwidth(filtersets_, filterset, band) ==
    LET b == Lookup(filtersets_, filterset, band)
    IN  IF b.status # "ok" THEN b ELSE Ok(bw(b.value))

\* the literal 2.5
TwoPointFive == Num(25, -1)

\* names bound in the module's namespace that name a unit: u.Jy is, a bare Jy is not
ModuleNames == {"u", "np", "qh", "math", "warnings", "Quantity"}

\* FilterSetManager.magtoflux
magtoflux(filtersets_, telescope, band, magnitude, mjy) ==
    LET b == Lookup(filtersets_, Lower(telescope), band)
    IN  IF b.status # "ok" THEN b
        ELSE LET zpjy  == To(zp(b.value), "Jy").value
                 x     == IF isMagnitude(magnitude)
                          THEN Div(magnitude.value, Mul(Whole(-1), TwoPointFive))
                          ELSE Div(magnitude.value, Mul(Whole(-1), TwoPointFive))
                 value == Quantity(Mul(zpjy.value, Pow10(x)), "Jy")
             IN  IF mjy = TRUE THEN To(value, "mJy")
                 ELSE IF "Jy" \in ModuleNames THEN To(value, "Jy")
                 ELSE Raise("NameError")

\* fluxtomag taking the number of a Quantity as it is, whatever its unit
fluxtomag_NoUnit(filtersets_, telescope, band, flux, mjy) ==
    LET b == Lookup(filtersets_, Lower(telescope), band)
    IN  IF b.status # "ok" THEN b
        ELSE LET zpjy == To(zp(b.value), "Jy").value
             IN  Ok(Magnitude(Mul(Mul(Whole(-1), TwoPointFive),
                                  Log10(Div(flux.value, zpjy.value)))))

\* FilterSetManager.fluxtomag
fluxtomag(filtersets_, telescope, band, flux, mjy) ==
    LET b == Lookup(filtersets_, Lower(telescope), band)
    IN  IF b.status # "ok" THEN b
        ELSE LET zpjy == To(zp(b.value), "Jy").value
                 conv == To(flux, "Jy")
                 fval == IF isQuantity(flux) THEN conv.value.value
                         ELSE IF mjy = TRUE THEN Div(flux.value, Whole(1000))
                         ELSE flux.value
             IN  IF isQuantity(flux) /\ conv.status # "ok" THEN conv
                 ELSE Ok(Magnitude(Mul(Mul(Whole(-1), TwoPointFive),
                                       Log10(Div(fval, zpjy.value)))))

\* a new FilterSetManager object
NewFilterSetManager == [type |-> "FilterSetManager", filtersets |-> FilterSetManagerInit]

(***************************************************************************)
(* class Photometry                                                        *)
(***************************************************************************)
Unit(unit) == [type |-> "Unit", unit |-> unit]

\* Photometry.__init__ without the comparison of the kinds of flux and error
NewPhotometry_NoKindCheck(bandname, flux, error, validity, unit) ==
    LET warned == bandname \notin DOMAIN valid_bands
        tagged(x) == isFluxDensity(x) \/ isMagnitude(x)
        flux_  == IF tagged(flux) THEN flux ELSE TimesUnit(flux, unit.unit)
        error_ == IF tagged(error) THEN error ELSE TimesUnit(error, unit.unit)
    IN  IF ~tagged(flux) /\ IsNone(unit) THEN Raise("Exception")
        ELSE IF ~tagged(error) /\ IsNone(unit) THEN Raise("Exception")
        ELSE Ok([type |-> "Photometry", bandname |-> bandname, flux |-> flux_,
                 error |-> error_, validity |-> validity, warned |-> warned,
                 fsm |-> NewFilterSetManager])

\* Photometry.__init__
NewPhotometry(bandname, flux, error, validity, unit) ==
    LET warned == bandname \notin DOMAIN valid_bands
        tagged(x) == isFluxDensity(x) \/ isMagnitude(x)
        flux_  == IF tagged(flux) THEN flux ELSE TimesUnit(flux, unit.unit)
        error_ == IF tagged(error) THEN error ELSE TimesUnit(error, unit.unit)
    IN  IF ~tagged(flux) /\ IsNone(unit) THEN Raise("Exception")
        ELSE IF ~tagged(error) /\ IsNone(unit) THEN Raise("Exception")
        ELSE IF ~(\/ isFluxDensity(flux_) /\ isFluxDensity(error_)
                  \/ isMagnitude(flux_) /\ isMagnitude(error_))
        THEN Raise("Exception")
        ELSE Ok([type |-> "Photometry", bandname |-> bandname, flux |-> flux_,
                 error |-> error_, validity |-> validity, warned |-> warned,
                 fsm |-> NewFilterSetManager])

\* tel = _valid_bands[self._bandname].lower(); self._fsm.magtoflux(tel, self._bandname, x)
ConvertToFlux(p, x) ==
    IF p.bandname \notin DOMAIN valid_bands THEN Raise("KeyError")
    ELSE magtoflux(p.fsm.filtersets, Lower(valid_bands[p.bandname]), p.bandname, x, TRUE)

\* Photometry.flux handing back the stored magnitude when the band has no telescope
Photometry_flux_Verbatim(p) ==
    IF isMagnitude(p.flux) /\ p.bandname \in DOMAIN valid_bands
    THEN ConvertToFlux(p, p.flux)
    ELSE Ok(p.flux)

\* Photometry.flux
Photometry_flux(p) ==
    IF isMagnitude(p.flux) THEN ConvertToFlux(p, p.flux) ELSE Ok(p.flux)

\* Photometry.magnitude
Photometry_magnitude(p) ==
    IF isFluxDensity(p.flux)
    THEN IF p.bandname \notin DOMAIN valid_bands THEN Raise("KeyError")
         ELSE fluxtomag(p.fsm.filtersets, Lower(valid_bands[p.bandname]), p.bandname, p.flux, TRUE)
    ELSE Ok(p.flux)

\* Photometry.error
Photometry_error(p) ==
    IF isMagnitude(p.error) THEN ConvertToFlux(p, p.error) ELSE Ok(p.error)

\* Photometry.mjy
Photometry_mjy(p) ==
    LET f == Photometry_flux(p)
    IN  IF f.status # "ok" THEN f ELSE Ok(Float(To(f.value, "mJy").value.value))

\* Photometry.errormjy
errormjy(p) ==
    IF isMagnitude(p.error)
    THEN LET NtoS    == Sub(Pow10(Div(p.error.value, TwoPointFive)), One)
             fluxmjy == ConvertToFlux(p, p.flux)
         IN  IF fluxmjy.status # "ok" THEN fluxmjy
             ELSE Ok(Float(To(Quantity(Mul(fluxmjy.value.value, NtoS), fluxmjy.value.unit),
                              "mJy").value.value))
    ELSE Ok(Float(To(p.error, "mJy").value.value))

\* Photometry.setvalidity
setvalidity(p, validity) == [p EXCEPT !.validity = validity]

(***************************************************************************)
(* Inputs of the calls the model makes.                                    *)
(***************************************************************************)
\* Bands a caller builds: two whose names differ only in letter case, and a third
UserBandV == B(<<"V">>, 55000, 8900, 36000)
UserBandv == B(<<"v">>, 54000, 8800, 35000)
UserBandR == B(<<"R">>, 65000, 15000, 30000)
UserBands == {UserBandV, UserBandv, UserBandR}
UserBandNames == {<<"V">>, <<"v">>, <<"R">>}

\* the values passed to __setitem__ that are not Bands
NonBands == {Float(One), None}

\* FilterSets a caller builds to register
UserSetName == <<"M","y","S","e","t">>
UserFilterSets ==
    {NewFilterSet(UserSetName, PyList(<<UserBandV>>)).value,
     NewFilterSet(UserSetName, PyList(<<UserBandR, UserBandv>>)).value}

\* lists of one or two Bands
BandLists == {PyList(<<b>>) : b \in UserBands}
             \cup {PyList(<<b, c>>) : b \in UserBands, c \in UserBands}

\* the number of elements an addBands argument writes
NumWrites(arg) == IF arg.type = "list" THEN Len(arg.items) ELSE 0

\* the writes of addBands(list): each Band under its own name
WritesOf(arg) ==
    IF arg.type = "list"
    THEN [i \in DOMAIN arg.items |-> [key |-> arg.items[i].name, band |-> arg.items[i]]]
    ELSE <<>>

(***************************************************************************)
(* State.  A caller holds at most one FilterSet, one FilterSetManager and  *)
(* one Photometry; it makes one call at a time and drops the outcome       *)
(* before the next call.                                                   *)
(***************************************************************************)
VARIABLES
    fs,          \* the caller's FilterSet object, or None
    hist,        \* the writes made to fs since it was built: [key, band], in order
    fsm,         \* the caller's FilterSetManager object, or None
    phot,        \* the caller's Photometry object, or None
    result       \* the outcome of the call being looked at: [op, args, status, value, prev]

vars == <<fs, hist, fsm, phot, result>>

\* the outcome r of the call op(args)
Call(op, args, r) ==
    [type |-> "Call", op |-> op, args |-> args, status |-> r.status, value |-> r.value,
     prev |-> None]

\* a call that returns nothing: only its status is kept
Proc(op, args, r) == Call(op, args, [status |-> r.status, value |-> None])

\* a call without arguments
NoArgs == [argc |-> 0]

NoCall == Call("none", NoArgs, Ok(None))
Idle == result.op = "none"

Init ==
    /\ fs = None
    /\ hist = <<>>
    /\ fsm = None
    /\ phot = None
    /\ result = NoCall

\* the caller drops the outcome of the last call
Return ==
    /\ ~Idle
    /\ result' = NoCall
    /\ UNCHANGED <<fs, hist, fsm, phot>>

(***************************************************************************)
(* Calls on a FilterSet.                                                   *)
(***************************************************************************)
\* fs = FilterSet(name, bands)
FS_New ==
    \E bands \in BandLists \cup UserBands \cup {None} :
        LET r == NewFilterSet(UserSetName, bands)
        IN  /\ Idle
            /\ NumWrites(bands) <= MaxWrites
            /\ fs' = IF r.status = "ok" THEN r.value ELSE fs
            /\ hist' = IF r.status = "ok" THEN WritesOf(bands) ELSE hist
            /\ result' = Proc("FilterSet", [fsname |-> UserSetName, bands |-> bands], r)
            /\ UNCHANGED <<fsm, phot>>

\* fs.addBands(bands)
FS_AddBands ==
    \E bands \in BandLists \cup UserBands :
        LET r == addBands(fs, bands)
        IN  /\ Idle
            /\ ~IsNone(fs)
            /\ Len(hist) + NumWrites(bands) <= MaxWrites
            /\ fs' = IF r.status = "ok" THEN r.value ELSE fs
            /\ hist' = IF r.status = "ok" THEN hist \o WritesOf(bands) ELSE hist
            /\ result' = Proc("addBands", [bands |-> bands], r)
            /\ UNCHANGED <<fsm, phot>>

\* fs[bandname] = band
FS_SetItem ==
    \E bandname \in UserBandNames, band \in UserBands \cup NonBands :
        LET r == FilterSet_setitem(fs, bandname, band)
        IN  /\ Idle
            /\ ~IsNone(fs)
            /\ Len(hist) < MaxWrites
            /\ fs' = IF r.status = "ok" THEN r.value ELSE fs
            /\ hist' = IF r.status = "ok"
                       THEN Append(hist, [key |-> bandname, band |-> band]) ELSE hist
            /\ result' = Proc("setitem", [bandname |-> bandname, band |-> band], r)
            /\ UNCHANGED <<fsm, phot>>

\* fs[bandname]
FS_GetItem ==
    \E bandname \in UserBandNames :
        /\ Idle
        /\ ~IsNone(fs)
        /\ result' = Call("getitem", [bandname |-> bandname], FilterSet_getitem(fs, bandname))
        /\ UNCHANGED <<fs, hist, fsm, phot>>

NextFilterSet == FS_New \/ FS_AddBands \/ FS_SetItem \/ FS_GetItem \/ Return

SpecFilterSet == Init /\ [][NextFilterSet]_vars

(***************************************************************************)
(* Calls on a FilterSetManager.                                            *)
(***************************************************************************)
UnknownSet  == <<"n","o","t","a","s","e","t">>
UnknownBand == <<"x">>

\* the names of the registered filter sets, as given at registration
RegisteredNames == {fsm.filtersets[k].name : k \in DOMAIN fsm.filtersets}

\* filter-set names a caller passes: every letter case of a registered name, and an unknown one
SetArgs == UNION {CaseVariants(n) : n \in RegisteredNames} \cup {UnknownSet}

\* band names a caller passes with the set name t: every letter case of a band of
\* that set, and an unknown one
BandArgs(t) ==
    IF Lower(t) \in DOMAIN fsm.filtersets
    THEN UNION {CaseVariants(fsm.filtersets[Lower(t)].bands[k].name) :
                    k \in DOMAIN fsm.filtersets[Lower(t)].bands} \cup {UnknownBand}
    ELSE {UnknownBand}

\* magnitudes on the grid of whole decades: 2.5 * k
Steps == (0 - MinusMinStep) .. MaxStep
Mag(k) == Mul(Whole(k), TwoPointFive)
MagnitudeArgs == {Float(Mag(k)) : k \in Steps} \cup {Magnitude(Mag(k)) : k \in Steps}

\* fluxes a caller passes to fluxtomag
FluxArgs == {Float(Whole(1000)), Float(Num(15685, -2)),
             Quantity(Whole(1000), "mJy"), Quantity(One, "Jy"), Quantity(Num(15685, -2), "mJy")}

\* the mjy argument as written at the call; left out, the default True applies
MjyArgs == {"default", "True", "False"}
MjyValue(a) == IF a = "default" THEN TRUE ELSE a = "True"

\* fsm = FilterSetManager()
M_New ==
    /\ Idle
    /\ fsm' = NewFilterSetManager
    /\ result' = Proc("FilterSetManager", NoArgs, Ok(None))
    /\ UNCHANGED <<fs, hist, phot>>

\* fsm.addFilterSets(arg)
M_AddFilterSets ==
    \E arg \in UserFilterSets \cup {PyList(<<f>>) : f \in UserFilterSets}
                \cup {PyTuple(<<f>>) : f \in UserFilterSets} :
        LET r == addFilterSets(fsm.filtersets, arg)
        IN  /\ Idle
            /\ ~IsNone(fsm)
            /\ fsm' = IF r.status = "ok" THEN [fsm EXCEPT !.filtersets = r.value] ELSE fsm
            /\ result' = Proc("addFilterSets", [filtersets |-> arg], r)
            /\ UNCHANGED <<fs, hist, phot>>

\* fsm[name]
M_GetItem ==
    /\ Idle
    /\ ~IsNone(fsm)
    /\ \E t \in SetArgs :
        result' = Call("fsm_getitem", [fsname |-> t], FilterSetManager_getitem(fsm.filtersets, t))
    /\ UNCHANGED <<fs, hist, fsm, phot>>

\* fsm.filtersetnames()
M_Filtersetnames ==
    /\ Idle
    /\ ~IsNone(fsm)
    /\ result' = Call("filtersetnames", NoArgs, filtersetnames(fsm.filtersets))
    /\ UNCHANGED <<fs, hist, fsm, phot>>

\* fsm.bandnames(filterset)
M_Bandnames ==
    /\ Idle
    /\ ~IsNone(fsm)
    /\ \E t \in SetArgs :
        result' = Call("bandnames", [filterset |-> t], bandnames(fsm.filtersets, t))
    /\ UNCHANGED <<fs, hist, fsm, phot>>

\* fsm.zeropoint(filterset, band)
M_Zeropoint ==
    /\ Idle
    /\ ~IsNone(fsm)
    /\ \E t \in SetArgs : \E b \in BandArgs(t) :
        result' = Call("zeropoint", [filterset |-> t, bandname |-> b], zeropoint(fsm.filtersets, t, b))
    /\ UNCHANGED <<fs, hist, fsm, phot>>

\* fsm.wavelength(filterset, band)
M_Wavelength ==
    /\ Idle
    /\ ~IsNone(fsm)
    /\ \E t \in SetArgs : \E b \in BandArgs(t) :
        result' = Call("wavelength", [filterset |-> t, bandname |-> b], wavelength(fsm.filtersets, t, b))
    /\ UNCHANGED <<fs, hist, fsm, phot>>

\* fsm.bandwidth(filterset, band)
M_Bandwidth ==
    /\ Idle
    /\ ~IsNone(fsm)
    /\ \E t \in SetArgs : \E b \in BandArgs(t) :
        result' = Call("bandwidth", [filterset |-> t, bandname |-> b], bandwidth(fsm.filtersets, t, b))
    /\ UNCHANGED <<fs, hist, fsm, phot>>

\* fsm.magtoflux(telescope, band, magnitude, mjy)
M_Magtoflux ==
    /\ Idle
    /\ ~IsNone(fsm)
    /\ \E t \in SetArgs : \E b \in BandArgs(t) :
       \E m \in MagnitudeArgs, mjy \in MjyArgs :
        result' = Call("magtoflux", [telescope |-> t, bandname |-> b, magnitude |-> m, mjy |-> mjy],
                       magtoflux(fsm.filtersets, t, b, m, MjyValue(mjy)))
    /\ UNCHANGED <<fs, hist, fsm, phot>>

\* fsm.fluxtomag(telescope, band, flux, mjy)
M_Fluxtomag ==
    /\ Idle
    /\ ~IsNone(fsm)
    /\ \E t \in SetArgs : \E b \in BandArgs(t) :
       \E f \in FluxArgs, mjy \in MjyArgs :
        result' = Call("fluxtomag", [telescope |-> t, bandname |-> b, flux |-> f, mjy |-> mjy],
                       fluxtomag(fsm.filtersets, t, b, f, MjyValue(mjy)))
    /\ UNCHANGED <<fs, hist, fsm, phot>>

\* fsm.fluxtomag(telescope, band, fsm.magtoflux(telescope, band, m)): the flux is
\* passed on as magtoflux returned it, both calls with mjy left out
M_RoundTrip ==
    /\ result.op = "magtoflux"
    /\ result.status = "ok"
    /\ result.args.mjy = "default"
    /\ result' = [Call("fluxtomag",
                       [telescope |-> result.args.telescope, bandname |-> result.args.bandname,
                        flux |-> result.value, mjy |-> "default"],
                       fluxtomag(fsm.filtersets, result.args.telescope, result.args.bandname,
                                 result.value, TRUE))
                  EXCEPT !.prev = result]
    /\ UNCHANGED <<fs, hist, fsm, phot>>

NextManager ==
    \/ M_New \/ M_AddFilterSets \/ M_GetItem \/ M_Filtersetnames \/ M_Bandnames
    \/ M_Zeropoint \/ M_Wavelength \/ M_Bandwidth
    \/ M_Magtoflux \/ M_Fluxtomag \/ M_RoundTrip \/ Return

SpecManager == Init /\ [][NextManager]_vars

(***************************************************************************)
(* Calls on a Photometry.                                                  *)
(***************************************************************************)
\* band names a caller passes: every band of the reverse-lookup table, a table band
\* in another letter case, and an unknown band
PhotBandArgs == DOMAIN valid_bands \cup {Lower(SDSS_u), UnknownBand}

\* magnitudes and magnitude errors of a measurement, on the grid of whole decades
ErrSteps == 0 .. MaxErrStep

\* values and errors a caller passes: bare numbers, magnitudes, flux densities, a length
PhotValueArgs ==
    {Float(Mag(k)) : k \in ErrSteps} \cup {Magnitude(Mag(k)) : k \in ErrSteps}
    \cup {Quantity(Whole(1000), "mJy"), Quantity(One, "Jy"), Quantity(One, "angstrom")}

PhotUnitArgs == {None, Unit("mJy"), Unit("Jy"), Unit("mag"), Unit("angstrom")}

\* phot = Photometry(bandname, flux, error, validity, unit), once per measurement
P_New ==
    /\ Idle
    /\ IsNone(phot)
    /\ \E bandname \in PhotBandArgs, flux \in PhotValueArgs, error \in PhotValueArgs,
          validity \in BOOLEAN, unit \in PhotUnitArgs :
        LET r == NewPhotometry(bandname, flux, error, validity, unit)
        IN  /\ phot' = IF r.status = "ok" THEN r.value ELSE None
            /\ result' = Call("Photometry", [bandname |-> bandname, flux |-> flux, error |-> error,
                                            validity |-> validity, unit |-> unit], r)
    /\ UNCHANGED <<fs, hist, fsm>>

\* phot.flux
P_Flux ==
    /\ Idle
    /\ ~IsNone(phot)
    /\ result' = Call("flux", NoArgs, Photometry_flux(phot))
    /\ UNCHANGED <<fs, hist, fsm, phot>>

\* phot.magnitude
P_Magnitude ==
    /\ Idle
    /\ ~IsNone(phot)
    /\ result' = Call("magnitude", NoArgs, Photometry_magnitude(phot))
    /\ UNCHANGED <<fs, hist, fsm, phot>>

\* phot.error
P_Error ==
    /\ Idle
    /\ ~IsNone(phot)
    /\ result' = Call("error", NoArgs, Photometry_error(phot))
    /\ UNCHANGED <<fs, hist, fsm, phot>>

\* phot.mjy()
P_Mjy ==
    /\ Idle
    /\ ~IsNone(phot)
    /\ result' = Call("mjy", NoArgs, Photometry_mjy(phot))
    /\ UNCHANGED <<fs, hist, fsm, phot>>

\* phot.errormjy()
P_Errormjy ==
    /\ Idle
    /\ ~IsNone(phot)
    /\ result' = Call("errormjy", NoArgs, errormjy(phot))
    /\ UNCHANGED <<fs, hist, fsm, phot>>

\* phot.setvalidity(validity)
P_Setvalidity ==
    /\ Idle
    /\ ~IsNone(phot)
    /\ \E validity \in BOOLEAN :
        /\ phot' = setvalidity(phot, validity)
        /\ result' = Proc("setvalidity", [validity |-> validity], Ok(None))
    /\ UNCHANGED <<fs, hist, fsm>>

NextPhotometry ==
    \/ P_New \/ P_Flux \/ P_Magnitude \/ P_Error \/ P_Mjy \/ P_Errormjy
    \/ P_Setvalidity \/ Return

SpecPhotometry == Init /\ [][NextPhotometry]_vars

(***************************************************************************)
(* Properties of FilterSet, checked under SpecFilterSet.                   *)
(***************************************************************************)
\* the position in hist of the last write under the lowercased form of bandname, 0 if none
LastWrite(bandname) ==
    LET idx == {i \in DOMAIN hist : Lower(hist[i].key) = Lower(bandname)}
    IN  IF idx = {} THEN 0 ELSE CHOOSE i \in idx : \A j \in idx : j <= i

\* names a caller looks up: the names written, in every letter case
LookupNames == UNION {CaseVariants(n) : n \in UserBandNames}

\* C8: passing one bare Band b to addBands, or to the FilterSet constructor, succeeds
\* and inserts b under its lowercased name, as passing the list [b] does.
C8_BareBandAccepted ==
    /\ (result.op = "addBands" /\ result.args.bands.type = "Band") =>
          /\ result.status = "ok"
          /\ FilterSet_getitem(fs, result.args.bands.name) = Ok(result.args.bands)
    /\ (result.op = "FilterSet" /\ result.args.bands.type = "Band") =>
          /\ result.status = "ok"
          /\ fs = NewFilterSet(result.args.fsname, PyList(<<result.args.bands>>)).value

\* C9: after any sequence of addBands(list of Bands) and set(bandName, band) on a
\* FilterSet, every stored key is lowercase, no two keys are equal after lowercasing,
\* no entry has been removed, and get(name) returns the Band most recently written
\* under the lowercased form of name (KeyError if there is none).
C9_MappingInv ==
    ~IsNone(fs) =>
        /\ \A k \in DOMAIN fs.bands : k = Lower(k)
        /\ \A k \in DOMAIN fs.bands : \A l \in DOMAIN fs.bands : Lower(k) = Lower(l) => k = l
        /\ \A i \in DOMAIN hist : Lower(hist[i].key) \in DOMAIN fs.bands
        /\ \A n \in LookupNames :
              FilterSet_getitem(fs, n) =
                  IF LastWrite(n) = 0 THEN Raise("KeyError") ELSE Ok(hist[LastWrite(n)].band)
        /\ result.op = "getitem" =>
              [status |-> result.status, value |-> result.value]
                  = IF LastWrite(result.args.bandname) = 0 THEN Raise("KeyError")
                    ELSE Ok(hist[LastWrite(result.args.bandname)].band)

\* C9: a call on the same FilterSet object removes no key, and a set() rejected
\* because its value is not a Band leaves the mapping unchanged.
C9_Step ==
    /\ (~IsNone(fs) /\ result'.op # "FilterSet") => DOMAIN fs.bands \subseteq DOMAIN fs'.bands
    /\ (result'.op = "setitem" /\ result'.args.band.type # "Band") =>
          /\ result'.status = "Exception"
          /\ fs' = fs

\* C9: the invariant and the step property together
C9_LastWriteWins == [](C9_MappingInv) /\ [][C9_Step]_vars

\* C9 happens: a key written twice in different letter cases, and the lookup returns
\* the Band written last
C9_Witness ==
    /\ ~IsNone(fs)
    /\ Len(hist) = MaxWrites
    /\ hist[1].key = <<"V">> /\ hist[1].band = UserBandV
    /\ hist[2].key = <<"v">> /\ hist[2].band = UserBandR
    /\ result.op = "getitem" /\ result.args.bandname = <<"V">>
    /\ result.value = UserBandR

(***************************************************************************)
(* Properties of FilterSetManager, checked under SpecManager.              *)
(***************************************************************************)
\* what a call did, without the call itself
Outcome(r) == [status |-> r.status, value |-> r.value]

\* t names a registered filter set and b a band of it, letter case aside
Registered(t, b) ==
    /\ Lower(t) \in DOMAIN fsm.filtersets
    /\ Lower(b) \in DOMAIN fsm.filtersets[Lower(t)].bands

\* the Band that t and b name
BandOf(t, b) == fsm.filtersets[Lower(t)].bands[Lower(b)]

\* C1: every operation that takes a filter-set name and a band name resolves any
\* letter case of either name to the same FilterSet and Band: the call does what the
\* call with the lowercased names does, and the lookups succeed.
C1_CaseInsensitive ==
    ~IsNone(fsm) =>
        /\ (result.op = "fsm_getitem" /\ Lower(result.args.fsname) \in DOMAIN fsm.filtersets) =>
              Outcome(result) = Ok(fsm.filtersets[Lower(result.args.fsname)])
        /\ (result.op = "zeropoint" /\ Registered(result.args.filterset, result.args.bandname)) =>
              Outcome(result) = Ok(BandOf(result.args.filterset, result.args.bandname).zeropoint)
        /\ (result.op = "wavelength" /\ Registered(result.args.filterset, result.args.bandname)) =>
              Outcome(result) = Ok(BandOf(result.args.filterset, result.args.bandname).wavelength)
        /\ (result.op = "bandwidth" /\ Registered(result.args.filterset, result.args.bandname)) =>
              Outcome(result) = Ok(BandOf(result.args.filterset, result.args.bandname).bandwidth)
        /\ (result.op = "magtoflux" /\ Registered(result.args.telescope, result.args.bandname)) =>
              Outcome(result) = magtoflux(fsm.filtersets, Lower(result.args.telescope),
                                          Lower(result.args.bandname), result.args.magnitude,
                                          MjyValue(result.args.mjy))
        /\ (result.op = "fluxtomag" /\ Registered(result.args.telescope, result.args.bandname)) =>
              Outcome(result) = fluxtomag(fsm.filtersets, Lower(result.args.telescope),
                                          Lower(result.args.bandname), result.args.flux,
                                          MjyValue(result.args.mjy))

\* C2: for every registered (filterSet, band) pair and every magnitude m of the range,
\* magnitudeToFlux with the default useMilliJansky succeeds, and fluxToMagnitude of
\* the flux exactly as returned, again with the default, returns the magnitude m.
C2_RoundTrip ==
    /\ (/\ result.op = "magtoflux"
        /\ result.args.mjy = "default"
        /\ Registered(result.args.telescope, result.args.bandname)) => result.status = "ok"
    /\ (result.op = "fluxtomag" /\ ~IsNone(result.prev)) =>
          /\ result.prev.op = "magtoflux"
          /\ result.args.flux = result.prev.value
          /\ Outcome(result) = Ok(Magnitude(result.prev.args.magnitude.value))

\* C2 happens: SDSS_u at magnitude 10 gives 156.85 mJy, which gives magnitude 10 back
C2_Witness ==
    /\ result.op = "fluxtomag"
    /\ ~IsNone(result.prev)
    /\ result.prev.args.telescope = SLOAN
    /\ result.prev.args.bandname = SDSS_u
    /\ result.prev.args.magnitude = Float(Whole(10))
    /\ result.args.flux = Quantity(Num(15685, -2), "mJy")
    /\ result.value = Magnitude(Whole(10))

\* C3: for every registered (filterSet, band) pair and every magnitude, magnitudeToFlux
\* returns a flux density for both settings of useMilliJansky: in mJy when the flag is
\* true, in Jy when it is false, both the flux zeroPoint_Jy * 10^(-magnitude/2.5).
C3_BothUnits ==
    (~IsNone(fsm) /\ result.op = "magtoflux"
        /\ Registered(result.args.telescope, result.args.bandname)) =>
        /\ result.status = "ok"
        /\ result.value.unit = IF MjyValue(result.args.mjy) THEN "mJy" ELSE "Jy"
        /\ SameFlux(result.value,
                    Quantity(Mul(To(BandOf(result.args.telescope, result.args.bandname).zeropoint, "Jy").value.value,
                                 Pow10(Div(Mul(Whole(-1), result.args.magnitude.value), TwoPointFive))),
                             "Jy"))

\* C4: bandNames(filterSetName) returns exactly the band keys of the named filter set
\* for every registered name, and fails with the lookup error only for a name that is
\* not registered.
C4_BandNames ==
    (~IsNone(fsm) /\ result.op = "bandnames") =>
        IF result.args.filterset \in DOMAIN fsm.filtersets
        THEN Outcome(result) = Ok(DictKeys(DOMAIN fsm.filtersets[result.args.filterset].bands))
        ELSE result.status = "KeyError"

(***************************************************************************)
(* Properties of Photometry, checked under SpecPhotometry.                 *)
(***************************************************************************)
\* the kind a constructor input resolves to: its own tag, or for a bare number the
\* unit given with it
Kind(x, unit) ==
    IF isMagnitude(x) THEN "magnitude"
    ELSE IF isFluxDensity(x) THEN "flux"
    ELSE IF x.type # "float" \/ IsNone(unit) THEN "none"
    ELSE IF unit.unit = "mag" THEN "magnitude"
    ELSE IF unit.unit \in FluxUnits THEN "flux"
    ELSE "none"

\* the band of the measurement has a registered filter set holding a Band of its name
Resolves(p) ==
    /\ p.bandname \in DOMAIN valid_bands
    /\ Lower(valid_bands[p.bandname]) \in DOMAIN p.fsm.filtersets
    /\ Lower(p.bandname) \in DOMAIN p.fsm.filtersets[Lower(valid_bands[p.bandname])].bands

\* zeroPoint_Jy * 10^(-m/2.5) in mJy for the band of the measurement
FluxOf(p, m) ==
    LET zpjy == To(p.fsm.filtersets[Lower(valid_bands[p.bandname])].bands[Lower(p.bandname)].zeropoint, "Jy").value
    IN  To(Quantity(Mul(zpjy.value, Pow10(Div(Sub(Zero, m), TwoPointFive))), "Jy"), "mJy").value

\* C5: for a Photometry stored as magnitude v with magnitude error e on a band of the
\* reverse-lookup table, the error accessor returns value_flux * (10^(e/2.5) - 1),
\* value_flux being the flux of v, and errormjy returns the mJy number of the same quantity.
C5_FluxError ==
    (~IsNone(phot) /\ isMagnitude(phot.flux) /\ isMagnitude(phot.error) /\ Resolves(phot)) =>
        LET value_flux == FluxOf(phot, phot.flux.value)
            expected   == Quantity(Mul(value_flux.value,
                                       Sub(Pow10(Div(phot.error.value, TwoPointFive)), One)), "mJy")
        IN  /\ result.op = "error" =>
                  result.status = "ok" /\ SameFlux(result.value, expected)
            /\ result.op = "errormjy" =>
                  Outcome(result) = Ok(Float(expected.value))

\* C6: construction fails whenever value and error resolve to different kinds, one
\* magnitude and one flux density, by their own tags or by the unit given for a bare
\* number; every constructed Photometry holds a value and an error of the same kind.
C6_MixedKind ==
    /\ (result.op = "Photometry"
         /\ {Kind(result.args.flux, result.args.unit), Kind(result.args.error, result.args.unit)}
               = {"magnitude", "flux"}) =>
            result.status = "Exception" /\ IsNone(phot)
    /\ ~IsNone(phot) =>
            \/ isMagnitude(phot.flux) /\ isMagnitude(phot.error)
            \/ isFluxDensity(phot.flux) /\ isFluxDensity(phot.error)

\* C6 happens: a bare number given with the unit mag as value and an error tagged Jy
\* are rejected
C6_Witness ==
    /\ result.op = "Photometry"
    /\ result.args.flux = Float(Mag(1))
    /\ result.args.unit = Unit("mag")
    /\ result.args.error = Quantity(One, "Jy")
    /\ result.status = "Exception"
    /\ IsNone(phot)

\* C7: a Photometry whose band is not in the reverse-lookup table is constructed all
\* the same and keeps its value: flux on a flux-stored record and magnitude on a
\* magnitude-stored record return the stored value, flux on a magnitude-stored record
\* and magnitude on a flux-stored record end in an error.
C7_UnknownBand ==
    /\ (result.op = "Photometry" /\ result.args.bandname \notin DOMAIN valid_bands
         /\ Kind(result.args.flux, result.args.unit) = Kind(result.args.error, result.args.unit)
         /\ Kind(result.args.flux, result.args.unit) # "none") =>
            /\ result.status = "ok"
            /\ ~IsNone(phot)
            /\ phot.warned
            /\ phot.bandname = result.args.bandname
            /\ phot.flux.value = result.args.flux.value
            /\ Kind(phot.flux, None) = Kind(result.args.flux, result.args.unit)
    /\ (~IsNone(phot) /\ phot.bandname \notin DOMAIN valid_bands) =>
            /\ result.op = "flux" =>
                  IF isFluxDensity(phot.flux) THEN Outcome(result) = Ok(phot.flux)
                  ELSE result.status # "ok"
            /\ result.op = "magnitude" =>
                  IF isMagnitude(phot.flux) THEN Outcome(result) = Ok(phot.flux)
                  ELSE result.status # "ok"

\* C7 happens: flux on a magnitude-stored record of an unknown band ends in KeyError
C7_Witness ==
    /\ ~IsNone(phot)
    /\ phot.bandname = UnknownBand
    /\ phot.warned
    /\ isMagnitude(phot.flux)
    /\ result.op = "flux"
    /\ Outcome(result) = Raise("KeyError")

\* C10: every band of the reverse-lookup table resolves in the Registry the
\* Photometry builds: its telescope is a registered filter set holding a Band of that
\* name, so flux on a magnitude-stored record and magnitude on a flux-stored record succeed.
C10_TableResolves ==
    (~IsNone(phot) /\ phot.bandname \in DOMAIN valid_bands) =>
        /\ Resolves(phot)
        /\ (result.op = "flux" /\ isMagnitude(phot.flux)) => result.status = "ok"
        /\ (result.op = "magnitude" /\ isFluxDensity(phot.flux)) => result.status = "ok"

====
